---- MODULE Spec2Model ----
(***************************************************************************)
(* Model of pyramid_alembic.context.Alembic (src/pyramid_alembic/context.py)*)
(* The class is a thin wrapper: every method rebuilds the ScriptDirectory   *)
(* from the version directory (property `script`, lines 66-71) and hands    *)
(* the work to alembic 0.8.4 (pinned in src/setup.py:15).                   *)
(*                                                                          *)
(* State: the revision scripts stored in the version directory (revs), the  *)
(* revisions applied to the database (applied), the number of database      *)
(* connections left open (conns), the stored revision that the identifier   *)
(* '0' resolves to (zeroRev, 0 when there is none), and the arguments and   *)
(* outcome of the last call (last).                                         *)
(***************************************************************************)
EXTENDS Integers, Sequences, FiniteSets, TLC

VARIABLES revs, applied, conns, zeroRev, last

vars == <<revs, applied, conns, zeroRev, last>>

(* ------------------------------ bounds --------------------------------- *)
MaxRevs == 4
MaxParents == 2
MaxDeps == 1
MaxStored == 2
MaxConns == 1
MaxSteps == 2

(* ------------------------- the revision graph --------------------------- *)
(* A stored revision is named by its position in revs; parents is its       *)
(* down_revision, deps its depends_on, labels its branch_labels.            *)
Ids(g) == 1..Len(g)

Script(ps, ds, ls) == [parents |-> ps, deps |-> ds, labels |-> ls]

RECURSIVE SeqsOver(_, _)
SeqsOver(S, n) ==
    IF n = 0 THEN {<<>>}
    ELSE LET shorter == SeqsOver(S, n - 1)
         IN shorter \cup
            UNION {{Append(s, x) : x \in {y \in S : \A i \in 1..Len(s) : s[i] # y}}
                   : s \in {t \in shorter : Len(t) = n - 1}}

Range(s) == {s[i] : i \in 1..Len(s)}

RECURSIVE Ascending(_)
Ascending(S) ==
    IF S = {} THEN <<>>
    ELSE LET m == CHOOSE x \in S : \A y \in S : x <= y
         IN <<m>> \o Ascending(S \ {m})

(* The version directories of n scripts.  A script names earlier scripts    *)
(* only: each earlier script is one of its down revisions (listed in        *)
(* ascending order), one of its dependencies, or neither; it has up to      *)
(* MaxParents down revisions and up to MaxDeps dependencies.                *)
Pairs(n) == {p \in (1..n) \X (1..n) : p[1] < p[2]}

GraphOf(n, e) ==
    [i \in 1..n |->
        Script(Ascending({j \in 1..(i - 1) : e[<<j, i>>] = "parent"}),
               {j \in 1..(i - 1) : e[<<j, i>>] = "dep"}, {})]

WithinBounds(g) ==
    \A i \in Ids(g) : Len(g[i].parents) <= MaxParents /\ Cardinality(g[i].deps) <= MaxDeps

StoredScripts(g, maxLen) ==
    \E n \in 0..maxLen :
        \E e \in [Pairs(n) -> {"none", "parent", "dep"}] :
            WithinBounds(GraphOf(n, e)) /\ g = GraphOf(n, e)

(* Script.nextrev: the revisions that name r in down_revision.              *)
nextrev(g, r) == {c \in Ids(g) : r \in Range(g[c].parents)}

(* Script._all_nextrev: nextrev plus the revisions that depend on r.        *)
all_nextrev(g, r) == {c \in Ids(g) : r \in Range(g[c].parents) \cup g[c].deps}

(* Script._all_down_revisions *)
all_down_revisions(g, r) == Range(g[r].parents) \cup g[r].deps

(* RevisionMap.heads: no revision names r as a down revision.               *)
get_heads(g) == {r \in Ids(g) : nextrev(g, r) = {}}

(* RevisionMap._real_heads, what the symbol 'heads' resolves to: with       *)
(* dependencies treated as down revisions, nothing points at r.             *)
real_heads(g) == {r \in Ids(g) : all_nextrev(g, r) = {}}

(* Script.is_branch_point *)
is_branch_point(g, r) == Cardinality(nextrev(g, r)) > 1

(* ScriptDirectory.walk_revisions('base', 'heads'): the revisions from the  *)
(* heads down to the base, a revision only after every revision that names  *)
(* it as a down revision or a dependency.  The order among unrelated        *)
(* revisions follows the iteration order of a set of identifiers, so every  *)
(* such order is a possible result.                                         *)
RECURSIVE WalkOrders(_, _)
WalkOrders(g, left) ==
    IF left = {} THEN {<<>>}
    ELSE UNION {{<<r>> \o s : s \in WalkOrders(g, left \ {r})}
                : r \in {x \in left : all_nextrev(g, x) \cap left = {}}}

walk_revisions(g) == WalkOrders(g, Ids(g))

(* ------------------------------- queries -------------------------------- *)
NoCall == [op |-> "init", flag |-> FALSE, err |-> "none", outSet |-> {}, outSeq |-> <<>>]

headsIgnoringFlag(g, resolve_dependencies) == get_heads(g)

(* Alembic.heads: 'heads' when resolve_dependencies (dependencies treated   *)
(* as down revisions), get_heads() otherwise.                               *)
heads(g, resolve_dependencies) ==
    IF resolve_dependencies THEN real_heads(g) ELSE get_heads(g)

branchesSorted(g, walk) == Ascending({r \in Range(walk) : is_branch_point(g, r)})

(* Alembic.branches: the walk's revisions that are branch points, in the    *)
(* walk's order.                                                            *)
branches(g, walk) == LET keep(r) == is_branch_point(g, r) IN SelectSeq(walk, keep)

(* Alembic.log: the normalisation of start and end *)
LogStart(start) == IF start = "None" THEN "base" ELSE start
LogEnd(end) == IF end = "None" THEN "heads" ELSE end

Heads(rd) ==
    /\ last' = [op |-> "heads", flag |-> rd, err |-> "none",
                outSet |-> heads(revs, rd), outSeq |-> <<>>]
    /\ UNCHANGED <<revs, applied, conns, zeroRev>>

Branches ==
    /\ \E w \in walk_revisions(revs) :
         last' = [op |-> "branches", flag |-> FALSE, err |-> "none",
                  outSet |-> {}, outSeq |-> branches(revs, w)]
    /\ UNCHANGED <<revs, applied, conns, zeroRev>>

Log(start, end) ==
    /\ LogStart(start) = "base" /\ LogEnd(end) = "heads"
    /\ \E w \in walk_revisions(revs) :
         last' = [op |-> "log", flag |-> FALSE, err |-> "none",
                  outSet |-> {}, outSeq |-> w]
    /\ UNCHANGED <<revs, applied, conns, zeroRev>>

InitQuery ==
    /\ StoredScripts(revs, MaxRevs)
    /\ applied = {}
    /\ conns = 0
    /\ zeroRev = 0
    /\ last = NoCall

NextQuery ==
    \/ \E rd \in BOOLEAN : Heads(rd)
    \/ Branches
    \/ \E start \in {"None", "base"}, end \in {"None", "heads"} : Log(start, end)

SpecQuery == InitQuery /\ [][NextQuery]_vars

NextHeads == \E rd \in BOOLEAN : Heads(rd)

SpecHeads == InitQuery /\ [][NextHeads]_vars

NextBranches == Branches

SpecBranches == InitQuery /\ [][NextBranches]_vars

(* --------------------------- run_migrations ----------------------------- *)
(* The revisions the version table records as current heads.                *)
DbHeads(g, db) == {r \in db : all_nextrev(g, r) \cap db = {}}

DownClosed(g) == {S \in SUBSET Ids(g) : \A r \in S : all_down_revisions(g, r) \subseteq S}

(* Alembic.run_migrations: the connection is opened (109-110), the          *)
(* environment is built and configured (112-115), and only then the try     *)
(* block whose finally closes the connection is entered (117-121).          *)
(* leaked is the number of connections the call leaves open.                *)
run_migrations(connectOk, configureOk, fnErr) ==
    IF ~connectOk THEN [err |-> "connect", leaked |-> 0]
    ELSE IF ~configureOk THEN [err |-> "configure", leaked |-> 1]
    ELSE [err |-> fnErr, leaked |-> 0]

(* What the surroundings do to one call: whether the database accepts the   *)
(* connection, whether the environment can be built and configured, and     *)
(* whether the work inside the transaction (the autogenerate comparison,    *)
(* the migration scripts) runs without raising.                             *)
Envs == [connect : BOOLEAN, configure : BOOLEAN, work : BOOLEAN]

(* ------------------------- revision and merge --------------------------- *)
(* Items of a parent or revisions argument: a stored identifier (1..) or    *)
(* one of the symbols.                                                      *)
SymHead == 0
SymHeads == -2

(* ScriptDirectory.generate_revision as revision() reaches it: head is      *)
(* ('head',), which resolves to the single head (none in an empty           *)
(* directory) and fails when there are several; depends_on must resolve.    *)
generate_revision(g, depend, labels) ==
    IF Cardinality(get_heads(g)) > 1 THEN [err |-> "multiple_heads", script |-> Script(<<>>, {}, {})]
    ELSE IF depend # 0 /\ depend \notin Ids(g)
        THEN [err |-> "unknown_revision", script |-> Script(<<>>, {}, {})]
    ELSE [err |-> "none",
          script |-> Script(IF get_heads(g) = {} THEN <<>>
                            ELSE <<CHOOSE h \in get_heads(g) : TRUE>>,
                            IF depend = 0 THEN {} ELSE {depend}, labels)]

Outcome(err, at, leaked, script) == [err |-> err, at |-> at, leaked |-> leaked, script |-> script]
NoScript == Script(<<>>, {}, {})

(* do_revision (302-307): the database must be at the heads, then the       *)
(* autogenerate step runs.                                                  *)
do_revision(g, db, diffOk) ==
    IF DbHeads(g, db) # real_heads(g) THEN "not_up_to_date"
    ELSE IF ~diffOk THEN "autogenerate" ELSE "none"

(* Alembic.revision, statement by statement.  string_types and current_app  *)
(* are names the module never binds (lines 1-15), so evaluating them raises *)
(* NameError; parent = ('head',) is a tuple, so line 269 raises TypeError.  *)
revision(g, db, a, env) ==
    IF a.parent.kind # "None" THEN Outcome("NameError", 253, 0, NoScript)
    ELSE IF a.label # "None" THEN Outcome("NameError", 260, 0, NoScript)
    ELSE IF a.branch # "" THEN Outcome("TypeError", 269, 0, NoScript)
    ELSE IF a.path = "rel" THEN Outcome("NameError", 292, 0, NoScript)
    ELSE LET rm == IF a.empty THEN [err |-> "none", leaked |-> 0]
                   ELSE run_migrations(env.connect, env.configure,
                                       do_revision(g, db, env.work))
         IN IF rm.err # "none" THEN Outcome(rm.err, 310, rm.leaked, NoScript)
            ELSE LET gen == generate_revision(g, a.depend, {})
                 IN Outcome(gen.err, 312, rm.leaked, gen.script)

(* Alembic.merge, statement by statement: a non-empty revisions argument    *)
(* reaches isinstance(revisions, string_types) at line 330; an empty one    *)
(* becomes ('heads',) and the call reaches isinstance(label, string_types)  *)
(* at line 338.                                                             *)
merge(g, a) ==
    IF ~(a.revisions.kind = "None" \/ a.revisions.items = <<>>)
    THEN Outcome("NameError", 330, 0, NoScript)
    ELSE Outcome("NameError", 338, 0, NoScript)

ParentArgs(g) ==
    {[kind |-> "None", items |-> <<>>], [kind |-> "str", items |-> <<SymHead>>]}
      \cup {[kind |-> "list", items |-> <<r>>] : r \in Ids(g)}

RevisionsArgs(g) ==
    {[kind |-> "None", items |-> <<>>]}
      \cup {[kind |-> "str", items |-> <<x>>] : x \in {SymHeads} \cup Ids(g)}
      \cup {[kind |-> "list", items |-> s] : s \in SeqsOver(Ids(g), MaxParents)}

RevisionArgs(g) ==
    [empty : BOOLEAN, branch : {"", "default"}, parent : ParentArgs(g),
     splice : BOOLEAN, depend : {0, 1}, label : {"None", "list"},
     path : {"None", "rel"}]

MergeArgs(g) == [revisions : RevisionsArgs(g), label : {"None", "str"}]

(* The environment is consulted only by a call that reaches run_migrations. *)
ReachesRunMigrations(a) ==
    /\ a.parent.kind = "None" /\ a.label = "None" /\ a.branch = ""
    /\ a.path # "rel" /\ ~a.empty

EnvOk == [connect |-> TRUE, configure |-> TRUE, work |-> TRUE]

Revision ==
    /\ Len(revs) < MaxRevs
    /\ conns < MaxConns
    /\ \E a \in RevisionArgs(revs) :
       \E env \in IF ReachesRunMigrations(a) THEN Envs ELSE {EnvOk} :
         LET out == revision(revs, applied, a, env)
         IN /\ revs' = IF out.err = "none" THEN Append(revs, out.script) ELSE revs
            /\ conns' = conns + out.leaked
            /\ last' = [op |-> "revision", args |-> a,
                        envOk |-> env.connect /\ env.configure,
                        err |-> out.err, at |-> out.at, before |-> revs]
    /\ UNCHANGED <<applied, zeroRev>>

Merge ==
    /\ Len(revs) < MaxRevs
    /\ \E a \in MergeArgs(revs) :
         LET out == merge(revs, a)
         IN /\ revs' = IF out.err = "none" THEN Append(revs, out.script) ELSE revs
            /\ last' = [op |-> "merge", args |-> a, envOk |-> TRUE,
                        err |-> out.err, at |-> out.at, before |-> revs]
    /\ UNCHANGED <<applied, conns, zeroRev>>

InitWrite ==
    /\ StoredScripts(revs, MaxStored)
    /\ applied \in DownClosed(revs)
    /\ conns = 0
    /\ zeroRev = 0
    /\ last = [op |-> "init", args |-> [empty |-> TRUE], envOk |-> TRUE,
               err |-> "none", at |-> 0, before |-> revs]

NextWrite == Revision \/ Merge

SpecWrite == InitWrite /\ [][NextWrite]_vars

(* ------------------------- upgrade and downgrade ------------------------ *)
RECURSIVE Descendants(_, _)
Descendants(g, r) ==
    all_nextrev(g, r) \cup UNION {Descendants(g, c) : c \in all_nextrev(g, r)}

(* The applied sets n relative steps below db: each step reverts one        *)
(* revision that no other applied revision builds on.                       *)
RECURSIVE StepsBack(_, _, _)
StepsBack(g, db, n) ==
    IF n = 0 THEN {db}
    ELSE UNION {StepsBack(g, db \ {r}, n - 1) : r \in DbHeads(g, db)}

(* ScriptDirectory._downgrade_revs(target, current heads) and the run of    *)
(* the revisions it returns.  A signed number is a relative target; any     *)
(* other string is looked up as a revision identifier, '0' included (no     *)
(* stored identifier is an unsigned number other than '0').                 *)
downgrade_revs(g, db, zero, target) ==
    IF target.kind = "int" /\ target.val < 0
    THEN IF StepsBack(g, db, -target.val) = {} THEN [err |-> "relative", dbs |-> {db}]
         ELSE [err |-> "none", dbs |-> StepsBack(g, db, -target.val)]
    ELSE LET d == IF target.kind = "rev" THEN target.val
                  ELSE IF target.val = 0 THEN zero ELSE 0
         IN IF d \notin Ids(g) THEN [err |-> "unknown_revision", dbs |-> {db}]
            ELSE IF d \notin db THEN [err |-> "not_an_ancestor", dbs |-> {db}]
            ELSE [err |-> "none", dbs |-> {db \ Descendants(g, d)}]

(* Alembic.downgrade, lines 222-230: a target that int() accepts is negated *)
(* when positive and otherwise left as it is; any other target is used as   *)
(* the identifier it names.                                                 *)
DowngradeTarget(target) ==
    IF target.kind = "int" /\ target.val > 0
    THEN [kind |-> "int", val |-> -target.val]
    ELSE target

DowngradeTargets(g) ==
    {[kind |-> "int", val |-> n] : n \in (-MaxSteps)..MaxSteps}
      \cup {[kind |-> "rev", val |-> r] : r \in 1..(Len(g) + 1)}

Downgrade ==
    /\ conns < MaxConns
    /\ \E target \in DowngradeTargets(revs), env \in Envs :
         LET passed == DowngradeTarget(target)
             lib == downgrade_revs(revs, applied, zeroRev, passed)
             rm == run_migrations(env.connect, env.configure,
                                  IF lib.err # "none" THEN lib.err
                                  ELSE IF ~env.work THEN "migration" ELSE "none")
         IN /\ applied' \in IF rm.err = "none" THEN lib.dbs ELSE {applied}
            /\ conns' = conns + rm.leaked
            /\ last' = [op |-> "downgrade", target |-> target, passed |-> passed,
                        err |-> rm.err, before |-> applied, connsBefore |-> conns]
    /\ UNCHANGED <<revs, zeroRev>>

(* Alembic.upgrade, line 208: None means 'heads'. *)
UpgradeTarget(target) == IF target = "None" THEN "heads" ELSE target

Upgrade ==
    /\ conns < MaxConns
    /\ \E target \in {"None", "heads"}, env \in Envs :
         LET rm == run_migrations(env.connect, env.configure,
                                  IF ~env.work THEN "migration" ELSE "none")
         IN /\ UpgradeTarget(target) = "heads"
            /\ applied' = IF rm.err = "none" THEN Ids(revs) ELSE applied
            /\ conns' = conns + rm.leaked
            /\ last' = [op |-> "upgrade", target |-> [kind |-> "sym", val |-> 0],
                        passed |-> [kind |-> "sym", val |-> 0],
                        err |-> rm.err, before |-> applied, connsBefore |-> conns]
    /\ UNCHANGED <<revs, zeroRev>>

InitMigrate ==
    /\ StoredScripts(revs, MaxStored)
    /\ applied \in DownClosed(revs)
    /\ conns = 0
    /\ zeroRev \in 0..Len(revs)
    /\ last = [op |-> "init", target |-> [kind |-> "sym", val |-> 0],
               passed |-> [kind |-> "sym", val |-> 0],
               err |-> "none", before |-> applied, connsBefore |-> 0]

NextMigrate == Downgrade \/ Upgrade

SpecMigrate == InitMigrate /\ [][NextMigrate]_vars

(* ------------------------- claims on the queries ------------------------ *)
Leaves(g) == Ids(g) \ UNION {Range(g[c].parents) : c \in Ids(g)}
DependedOn(g) == UNION {g[c].deps : c \in Ids(g)}

RECURSIVE Ancestors(_, _)
Ancestors(g, r) ==
    all_down_revisions(g, r) \cup UNION {Ancestors(g, p) : p \in all_down_revisions(g, r)}

NoDuplicates(s) == \A i, j \in 1..Len(s) : i # j => s[i] # s[j]

(* C1 as stated: heads(resolve_dependencies=True) reports the same set of   *)
(* leaf revisions as heads(resolve_dependencies=False), also when a head is *)
(* listed in the depends-on set of another revision.                        *)
C1_SameLeafSet ==
    last.op = "heads" => last.outSet = Leaves(revs)

(* C1 amended: heads(False) reports every revision that is no revision's    *)
(* parent; heads(True) reports those of them that no revision depends on,   *)
(* so the two differ exactly when a leaf is depended on.                    *)
C1_HeadsByFlag ==
    last.op = "heads" =>
        /\ ~last.flag => last.outSet = Leaves(revs)
        /\ last.flag => last.outSet = Leaves(revs) \ DependedOn(revs)

C1_Witness ==
    /\ last.op = "heads" /\ last.flag
    /\ Leaves(revs) \cap DependedOn(revs) # {}
    /\ last.outSet # {}

(* C6 as stated: log() with its default arguments (or None for both) lists  *)
(* every revision exactly once, each revision after all of its parents and  *)
(* all of the revisions it depends on.                                      *)
C6_LogParentsFirst ==
    last.op = "log" =>
        /\ Range(last.outSeq) = Ids(revs)
        /\ NoDuplicates(last.outSeq)
        /\ \A i, j \in 1..Len(last.outSeq) :
              last.outSeq[i] \in all_down_revisions(revs, last.outSeq[j]) => i < j

(* C7 as stated: branches() returns exactly the revisions with more than    *)
(* one child, each once, in ascending order of identifier.                  *)
C7_BranchesAscending ==
    last.op = "branches" =>
        /\ Range(last.outSeq) = {r \in Ids(revs) : Cardinality(nextrev(revs, r)) > 1}
        /\ NoDuplicates(last.outSeq)
        /\ \A i, j \in 1..Len(last.outSeq) : i < j => last.outSeq[i] < last.outSeq[j]

(* C7 amended: branches() returns exactly the revisions with more than one  *)
(* child, each once, in the order of the walk from the heads to the base:   *)
(* a branch point is never preceded by one of its ancestors.                *)
C7_BranchesWalkOrder ==
    last.op = "branches" =>
        /\ Range(last.outSeq) = {r \in Ids(revs) : Cardinality(nextrev(revs, r)) > 1}
        /\ NoDuplicates(last.outSeq)
        /\ \A i, j \in 1..Len(last.outSeq) :
              i < j => last.outSeq[i] \notin Ancestors(revs, last.outSeq[j])

C7_Witness ==
    /\ last.op = "branches"
    /\ Len(last.outSeq) >= 2
    /\ last.outSeq[2] \in Ancestors(revs, last.outSeq[1])

(* ------------------------ claims on revision and merge ------------------ *)
FewerThanTwo(g, a) ==
    \/ a.revisions.kind = "None"
    \/ a.revisions.kind = "list" /\ Len(a.revisions.items) < 2
    \/ a.revisions.kind = "str"
         /\ (a.revisions.items[1] = SymHeads => Cardinality(real_heads(g)) < 2)

BranchExists(g, b) == \E r \in Ids(g) : b \in g[r].labels

(* C2 as stated: merge with fewer than two revisions to merge (an empty     *)
(* list, a single identifier, a symbol that resolves to a single head)      *)
(* fails with InsufficientRevisionsError and creates no revision.           *)
C2_MergeInsufficient ==
    (last.op = "merge" /\ FewerThanTwo(last.before, last.args)) =>
        /\ last.err = "InsufficientRevisionsError"
        /\ revs = last.before

(* C3 as stated: revision() with a branch name that has no revision yet     *)
(* creates the revision with base as its only parent and the branch name as *)
(* a label, whatever parent was passed; with a branch that has a revision   *)
(* it keeps the caller's parents and does not add the label.                *)
C3_NewBranchFromBase ==
    (/\ last.op = "revision" /\ last.args.branch # ""
     /\ last.args.empty /\ last.args.depend = 0 /\ last.args.path = "None"
     /\ last.args.label = "None") =>
        /\ last.err = "none"
        /\ Len(revs) = Len(last.before) + 1
        /\ IF BranchExists(last.before, last.args.branch)
           THEN last.args.branch \notin revs[Len(revs)].labels
           ELSE /\ revs[Len(revs)].parents = <<>>
                /\ last.args.branch \in revs[Len(revs)].labels

(* C4 as stated: revision() with splice=False and a parent that already has *)
(* a child fails with NotAHeadError and adds no revision, for every call,   *)
(* also one that leaves branch at its default.                              *)
C4_NotAHead ==
    (/\ last.op = "revision" /\ ~last.args.splice
     /\ last.args.parent.kind = "list"
     /\ nextrev(last.before, last.args.parent.items[1]) # {}) =>
        /\ last.err = "NotAHeadError"
        /\ revs = last.before

C9_NotUpToDate ==
    /\ (/\ last.op = "revision" /\ ~last.args.empty /\ last.envOk
        /\ DbHeads(last.before, applied) # real_heads(last.before)) =>
           (last.err = "not_up_to_date" /\ revs = last.before)
    /\ (last.op \in {"revision", "merge"} /\ last.err # "none") => revs = last.before

(* ------------------------ claims on the migrations ---------------------- *)
RevertedBy(targetVal) == IF targetVal > 0 THEN targetVal ELSE -targetVal

(* C8 as stated: downgrade(0) is a no-op, the applied revisions after the   *)
(* call are those before it; a positive N is N steps back, the same request *)
(* as -N, and a negative target is passed on unchanged.                     *)
C8_ZeroIsNoOp ==
    (last.op = "downgrade" /\ last.target.kind = "int") =>
        /\ last.target.val = 0 => applied = last.before
        /\ last.target.val > 0 => last.passed.val = -last.target.val
        /\ last.target.val < 0 => last.passed.val = last.target.val
        /\ (last.target.val # 0 /\ last.err = "none") =>
              Cardinality(last.before \ applied) = RevertedBy(last.target.val)

(* C10 as stated: every connection run_migrations opens is closed by the    *)
(* time it returns or raises, on every path, also when the environment      *)
(* cannot be configured before the transaction starts.                      *)
C10_AlwaysClosed ==
    last.op \in {"upgrade", "downgrade"} => conns = last.connsBefore

====
